---- MODULE Spec2Model ----
(***************************************************************************)
(* Model of the YouTube download service: the in-memory rate limiter       *)
(* (lib/rate-limit), the format selection of the download route and the    *)
(* POST handler that ties them together.                                   *)
(*                                                                         *)
(* Time is Date.now() in milliseconds.  The rate table `store` is the only *)
(* state shared between requests.                                          *)
(***************************************************************************)
EXTENDS Integers, Sequences, FiniteSets, TLC

(***************************************************************************)
(* Bounds of the model.                                                    *)
(***************************************************************************)
\* largest value configured through RATE_LIMIT_MAX_REQUESTS
MaxLimit == 3
\* number of whole windows the clock runs through
MaxWindows == 2
\* number of rejected calls of one key in one window
MaxRejects == 2

\* longest stream list handed to the format selection
MaxFormats == 3

\* longest stream list a metadata fetch returns to a request
MaxInfoFormats == 2
\* number of chunks a transfer delivers
MaxChunks == 2
\* longest video title, in characters
MaxTitle == 3
\* longest list of combined streams a metadata fetch returns to the fallback chain
MaxChainFormats == 3

\* client identifiers (x-forwarded-for / x-real-ip / 'unknown')
Keys == {"ip1", "ip2"}

\* a key that no client uses: the value of last.key before the first call
NoKey == "none"

VARIABLES
    store,      \* rate table: a function from the keys that have an entry to [count, resetTime]
    now,        \* Date.now()
    envLimit,   \* process.env.RATE_LIMIT_MAX_REQUESTS: << >> when unset, else <<n>>, n the number it parses to
    nodeEnv,    \* process.env.NODE_ENV
    last,       \* the most recent rateLimit call: its key, time, return value and what it met
    win,        \* history: for each key that called, the window of its latest call
    unswept,    \* the rate table of the same calls at the same times with no cleanup run
    handler,    \* which POST handler is deployed: "streaming" (app/api/download/route.ts)
                \* or "buffered" (the variant that collects the video into a buffer)
    infoFormats,\* videoInfo.formats: the stream list under selection
    quality,    \* the quality label of the request body
    picked,     \* the outcome of the format selection, once it ran
    title,      \* videoInfo.videoDetails.title, a sequence of characters
    filename,   \* the filename of the response: << >> before it is made, else the
                \* characters of the sanitized title followed by ".mp4"
    reqs        \* the POST requests: for each, where its handler stands and what it did

limiterVars == <<store, now, envLimit, nodeEnv, last, win, unswept>>
selectionVars == <<infoFormats, quality, picked>>
nameVars == <<title, filename>>
formatVars == <<handler, selectionVars, nameVars>>
postVars == <<reqs>>
vars == <<limiterVars, formatVars, postVars>>

(***************************************************************************)
(* lib/rate-limit                                                          *)
(***************************************************************************)
RATE_LIMIT_WINDOW == 60 * 1000

isDevelopment == nodeEnv = "development"

MAX_REQUESTS_PER_WINDOW ==
    IF Len(envLimit) > 0 THEN envLimit[1]
    ELSE IF isDevelopment THEN 100 ELSE 30

\* `now > store[key].resetTime`: the stored window has ended
Expired(key, t) == t > store[key].resetTime

\* first branch of rateLimit: no entry, or the entry's window has ended
NewWindow(key) == key \notin DOMAIN store \/ Expired(key, now)

\* mutant: the limit test lets one call too many through
LimitReached_offByOne(key) == store[key].count > MAX_REQUESTS_PER_WINDOW

\* second branch: the window is live and its count has reached the limit
LimitReached(key) == store[key].count >= MAX_REQUESTS_PER_WINDOW

\* mutant: a rejected call still counts
rateLimitStore_countsRejected(key) ==
    IF NewWindow(key)
    THEN [k \in DOMAIN store \cup {key} |->
            IF k = key THEN [count |-> 1, resetTime |-> now + RATE_LIMIT_WINDOW]
            ELSE store[k]]
    ELSE [store EXCEPT ![key].count = @ + 1]

\* the table after rateLimit(key)
rateLimitStore(key) ==
    IF NewWindow(key)
    THEN [k \in DOMAIN store \cup {key} |->
            IF k = key THEN [count |-> 1, resetTime |-> now + RATE_LIMIT_WINDOW]
            ELSE store[k]]
    ELSE IF LimitReached(key)
    THEN store
    ELSE [store EXCEPT ![key].count = @ + 1]

\* mutant: remaining is computed from the count before the increment
rateLimit_staleRemaining(key) ==
    LET after == rateLimitStore(key) IN
    IF NewWindow(key)
    THEN [allowed |-> TRUE, remaining |-> MAX_REQUESTS_PER_WINDOW - 1,
          resetTime |-> after[key].resetTime]
    ELSE IF LimitReached(key)
    THEN [allowed |-> FALSE, remaining |-> 0, resetTime |-> store[key].resetTime]
    ELSE [allowed |-> TRUE, remaining |-> MAX_REQUESTS_PER_WINDOW - store[key].count,
          resetTime |-> after[key].resetTime]

\* the value rateLimit(key) returns
rateLimit(key) ==
    LET after == rateLimitStore(key) IN
    IF NewWindow(key)
    THEN [allowed |-> TRUE, remaining |-> MAX_REQUESTS_PER_WINDOW - 1,
          resetTime |-> after[key].resetTime]
    ELSE IF LimitReached(key)
    THEN [allowed |-> FALSE, remaining |-> 0, resetTime |-> store[key].resetTime]
    ELSE [allowed |-> TRUE, remaining |-> MAX_REQUESTS_PER_WINDOW - after[key].count,
          resetTime |-> after[key].resetTime]

\* mutant: the cleanup also deletes the entry whose window ends at this instant
sweepStore_atWindowEnd == [k \in {j \in DOMAIN store : now < store[j].resetTime} |-> store[k]]

\* the table after one run of the setInterval cleanup at time `now`
sweepStore == [k \in {j \in DOMAIN store : ~Expired(j, now)} |-> store[k]]

(***************************************************************************)
(* History of the calls, kept beside the table and never read by it.  A    *)
(* key's window starts with the first call the key makes when it has no    *)
(* window or its window has ended, and ends one minute later; a            *)
(* call at time t is after the window's end when t > start + one minute.   *)
(***************************************************************************)
Minute == 60 * 1000

WindowOver(key) == key \notin DOMAIN win \/ now > win[key].start + Minute

\* the window of `key` as the call meets it
WinBefore(key) ==
    IF WindowOver(key) THEN [start |-> now, calls |-> 0, accepted |-> 0]
    ELSE win[key]

\* the history counts the rejected calls of a window, which the code does not bound
CanCall(key) == WinBefore(key).calls - WinBefore(key).accepted < MaxRejects

WinAfter(key, allowed) ==
    LET w == WinBefore(key) IN
    [k \in DOMAIN win \cup {key} |->
        IF k = key
        THEN [start |-> w.start, calls |-> w.calls + 1,
              accepted |-> w.accepted + (IF allowed THEN 1 ELSE 0)]
        ELSE win[k]]

\* what one call leaves in `last`
CallRecord(key) ==
    LET r == rateLimit(key) IN
    [key |-> key, at |-> now,
     allowed |-> r.allowed, remaining |-> r.remaining, resetTime |-> r.resetTime,
     fresh |-> WindowOver(key),
     hadEntry |-> key \in DOMAIN store,
     hadWindow |-> key \in DOMAIN win,
     prevAccepted |-> IF key \in DOMAIN win THEN win[key].accepted ELSE 0,
     prevCalls |-> IF key \in DOMAIN win THEN win[key].calls ELSE 0,
     start |-> WinBefore(key).start,
     acceptedBefore |-> WinBefore(key).accepted,
     callsBefore |-> WinBefore(key).calls,
     count |-> rateLimitStore(key)[key].count]

NoCall ==
    [key |-> NoKey, at |-> 0, allowed |-> FALSE, remaining |-> 0, resetTime |-> 0,
     fresh |-> FALSE, hadEntry |-> FALSE, hadWindow |-> FALSE, prevAccepted |-> 0,
     prevCalls |-> 0, start |-> 0, acceptedBefore |-> 0,
     callsBefore |-> 0, count |-> 0]

(***************************************************************************)
(* The same rateLimit run on the table that no cleanup ever touches.       *)
(***************************************************************************)
\* the table `unswept` after rateLimit(key)
unsweptStore(key) ==
    IF key \notin DOMAIN unswept \/ now > unswept[key].resetTime
    THEN [k \in DOMAIN unswept \cup {key} |->
            IF k = key THEN [count |-> 1, resetTime |-> now + RATE_LIMIT_WINDOW]
            ELSE unswept[k]]
    ELSE IF unswept[key].count >= MAX_REQUESTS_PER_WINDOW
    THEN unswept
    ELSE [unswept EXCEPT ![key].count = @ + 1]

\* the value rateLimit(key) returns on the table `unswept`
unsweptResult(key) ==
    LET after == unsweptStore(key) IN
    IF key \notin DOMAIN unswept \/ now > unswept[key].resetTime
    THEN [allowed |-> TRUE, remaining |-> MAX_REQUESTS_PER_WINDOW - 1,
          resetTime |-> after[key].resetTime]
    ELSE IF unswept[key].count >= MAX_REQUESTS_PER_WINDOW
    THEN [allowed |-> FALSE, remaining |-> 0, resetTime |-> unswept[key].resetTime]
    ELSE [allowed |-> TRUE, remaining |-> MAX_REQUESTS_PER_WINDOW - after[key].count,
          resetTime |-> after[key].resetTime]

\* the limiter before any call, with the limit left to its default
LimiterIdle ==
    /\ store = << >> /\ now = 0
    /\ envLimit = << >> /\ nodeEnv = "production"
    /\ last = NoCall /\ win = << >> /\ unswept = << >>

(***************************************************************************)
(* Format selection of the download route.  A stream is a record of the    *)
(* attributes the selection reads; videoInfo.formats is a sequence of      *)
(* streams and a stream is identified by its position in that sequence, so *)
(* that two streams with equal attributes stay two objects.  A filtered or *)
(* sorted list is a sequence of positions; 0 stands for "no stream".       *)
(* Every stream that ytdl.filterFormats returns carries a url, so the      *)
(* test `!selectedFormat.url` of the buffered handler is false for every   *)
(* selected stream and is not modelled apart from `!selectedFormat`.       *)
(***************************************************************************)
\* `(f.height || 0)`: a stream without height has height 0
NoHeight == 0

Heights == {NoHeight, 720, 1080, 1440, 2160}

\* a stream has video, audio or both
Streams ==
    {f \in [height : Heights, hasAudio : BOOLEAN, hasVideo : BOOLEAN] :
        f.hasAudio \/ f.hasVideo}

qualityMap == [q \in {"1080p", "1440p", "2160p", "4320p"} |->
                 CASE q = "1080p" -> 1080
                   [] q = "1440p" -> 1440
                   [] q = "2160p" -> 2160
                   [] q = "4320p" -> 4320]

\* the labels a request body may carry: the four of the map and one it does not know
Qualities == DOMAIN qualityMap \cup {"720p"}

\* `qualityMap[quality] || 1080`
targetHeight(q) == IF q \in DOMAIN qualityMap THEN qualityMap[q] ELSE 1080

\* ytdl.filterFormats(formats, filter): the positions of the streams of one kind, in order
filterFormats(formats, filter) ==
    LET keep(i) ==
            CASE filter = "videoandaudio" -> formats[i].hasVideo /\ formats[i].hasAudio
              [] filter = "videoonly" -> formats[i].hasVideo /\ ~formats[i].hasAudio
              [] filter = "audioonly" -> ~formats[i].hasVideo /\ formats[i].hasAudio
    IN SelectSeq([i \in 1..Len(formats) |-> i], keep)

\* Array.prototype.find: the first element of `list` among those passing the test
\* (`passing`), or 0
find(list, passing) ==
    LET hits == {i \in 1..Len(list) : list[i] \in passing} IN
    IF hits = {} THEN 0
    ELSE list[CHOOSE i \in hits : \A j \in hits : i <= j]

\* insertion of position x into a list sorted by descending height, behind its equals
RECURSIVE insertDesc(_, _, _)
insertDesc(formats, sorted, x) ==
    IF sorted = << >> THEN <<x>>
    ELSE IF formats[Head(sorted)].height >= formats[x].height
    THEN <<Head(sorted)>> \o insertDesc(formats, Tail(sorted), x)
    ELSE <<x>> \o sorted

\* list.sort((a, b) => (b.height || 0) - (a.height || 0)): stable, descending by height
RECURSIVE sortByHeightDesc(_, _)
sortByHeightDesc(formats, list) ==
    IF list = << >> THEN << >>
    ELSE insertDesc(formats,
                    sortByHeightDesc(formats, SubSeq(list, 1, Len(list) - 1)),
                    list[Len(list)])

\* mutant: the `|| list[0]` fallback is missing
closestOrFirst_noFallback(formats, sorted, target) ==
    LET atLeast == {i \in DOMAIN formats : formats[i].height >= target}
    IN find(sorted, atLeast)

\* `list.find(f => (f.height || 0) >= target) || list[0]` on a list sorted descending
closestOrFirst(formats, sorted, target) ==
    LET atLeast == {i \in DOMAIN formats : formats[i].height >= target}
        hit == find(sorted, atLeast)
    IN IF hit # 0 THEN hit ELSE sorted[1]

\* mutant: the split selection does not ask for an audio-only stream
splitSelection_videoAlone(formats, target) ==
    LET videoFormats == filterFormats(formats, "videoonly")
    IN IF Len(videoFormats) > 0
       THEN closestOrFirst(formats, sortByHeightDesc(formats, videoFormats), target)
       ELSE 0

\* mutant: the split selection hands out the audio stream
splitSelection_audio(formats, target) ==
    LET videoFormats == filterFormats(formats, "videoonly")
        audioFormats == filterFormats(formats, "audioonly")
    IN IF Len(videoFormats) > 0 /\ Len(audioFormats) > 0 THEN audioFormats[1] ELSE 0

\* Strategy 3 of both handlers: the video-only stream standing for a split selection
splitSelection(formats, target) ==
    LET videoFormats == filterFormats(formats, "videoonly")
        audioFormats == filterFormats(formats, "audioonly")
    IN IF Len(videoFormats) > 0 /\ Len(audioFormats) > 0
       THEN closestOrFirst(formats, sortByHeightDesc(formats, videoFormats), target)
       ELSE 0

\* the selection of the streaming handler: the selected position (0: none) and the
\* combined list `formats` as the selection leaves it
selectFormatStreaming(formats, target) ==
    LET combined == filterFormats(formats, "videoandaudio")
        exact == {i \in DOMAIN formats :
                    formats[i].height = target /\ formats[i].hasAudio /\ formats[i].hasVideo}
        s1 == find(combined, exact)
        sorts == s1 = 0 /\ Len(combined) > 0
        list == IF sorts THEN sortByHeightDesc(formats, combined) ELSE combined
        s2 == IF sorts THEN closestOrFirst(formats, list, target) ELSE s1
        s3 == IF s2 = 0 THEN splitSelection(formats, target) ELSE s2
    IN [selected |-> s3, formats |-> list]

\* the selection of the buffered handler
selectFormatBuffered(formats, target) ==
    LET combined == filterFormats(formats, "videoandaudio")
        exact == {i \in DOMAIN formats :
                    formats[i].height = target /\ formats[i].hasAudio /\ formats[i].hasVideo}
        s1 == IF Len(combined) > 0 THEN find(combined, exact) ELSE 0
        sorts == Len(combined) > 0 /\ s1 = 0
        list == IF sorts THEN sortByHeightDesc(formats, combined) ELSE combined
        s2 == IF sorts THEN closestOrFirst(formats, list, target) ELSE s1
        s3 == IF s2 = 0 THEN splitSelection(formats, target) ELSE s2
    IN [selected |-> s3, formats |-> list]

\* mutant: the exact-height strategy is skipped
selectFormat_noExact(formats, target) ==
    LET combined == filterFormats(formats, "videoandaudio")
        list == sortByHeightDesc(formats, combined)
        s2 == IF Len(combined) > 0 THEN closestOrFirst(formats, list, target) ELSE 0
    IN [selected |-> IF s2 = 0 THEN splitSelection(formats, target) ELSE s2,
        formats |-> list]

\* the selection of the deployed handler
selectFormat(formats, target) ==
    IF handler = "streaming" THEN selectFormatStreaming(formats, target)
    ELSE selectFormatBuffered(formats, target)

Handlers == {"streaming", "buffered"}

\* all stream lists of at most n streams
FormatLists(n) == UNION {[1..k -> Streams] : k \in 0..n}

NotPicked == [done |-> FALSE, selected |-> 0, formats |-> << >>]

(***************************************************************************)
(* The filename of the response (route.ts:261-262):                        *)
(*   title.replace(/[^\w\s-]/g, '').trim() followed by ".mp4".             *)
(* A character is a one-character string; \w is [A-Za-z0-9_] and \s is     *)
(* white space, of which the space and the tab stand here.                 *)
(***************************************************************************)
Letters == {"a"}
Digits == {"7"}
\* the characters of a title: \w, \s, the hyphen, and two that the pattern removes
Chars == Letters \cup Digits \cup {"_", " ", "\t", "-", "!", "\\"}

\* \w and \s among Chars
WordChars == Letters \cup Digits \cup {"_"}
SpaceChars == {" ", "\t"}

\* title.replace(/[^\w\s-]/g, '')
stripTitle(t) ==
    LET kept(c) == c \in WordChars \cup SpaceChars \cup {"-"}
    IN SelectSeq(t, kept)

\* String.prototype.trim: white space off both ends
RECURSIVE trim(_)
trim(t) ==
    IF t = << >> THEN t
    ELSE IF Head(t) \in SpaceChars THEN trim(Tail(t))
    ELSE IF t[Len(t)] \in SpaceChars THEN trim(SubSeq(t, 1, Len(t) - 1))
    ELSE t

\* mutant: the title is trimmed only
sanitizeTitle_keepsAll(t) == trim(t)

\* the sanitized title
sanitizeTitle(t) == trim(stripTitle(t))

\* `${title}.mp4`
makeFilename(t) == Append(sanitizeTitle(t), ".mp4")

Titles == UNION {[1..n -> Chars] : n \in 0..MaxTitle}

\* no response has been named
NameIdle == title = << >> /\ filename = << >>

\* the variables of the selection on its own, outside it
FormatSelectionIdle ==
    infoFormats = << >> /\ quality = "1080p" /\ picked = NotPicked /\ NameIdle

\* the format variables outside a selection
FormatIdle == handler = "streaming" /\ FormatSelectionIdle

(***************************************************************************)
(* The POST handlers.  A handler runs from one await to the next without   *)
(* interleaving, so each action below is the code between two awaits.  The *)
(* URL helpers of lib/utils and the extraction library are outside the     *)
(* source: the request body says what the helpers answer for its url, and  *)
(* the outcome of a library call is an input of the step that receives it. *)
(***************************************************************************)
Requests == {"r1", "r2"}

\* what isValidYouTubeUrl and extractVideoId answer for the url of a body
Urls == {"missing", "invalid", "noVideoId", "ok"}

\* a body that request.json() parses, as the handler reads it
Bodies == [url : Urls, quality : Qualities]

\* an error object: its statusCode (0: none) and the patterns its message contains
Patterns == {"410", "403", "404", "Private video", "Video unavailable", "not found",
             "Sign in to confirm your age"}
Error(code, texts) == [statusCode |-> code, contains |-> texts]
NoError == Error(0, {})

\* the errors ytdl.getInfo rejects with
GetInfoErrors ==
    {Error(410, {}), Error(403, {}), Error(401, {}), Error(0, {"Private video"}),
     Error(0, {"Sign in to confirm your age"}), Error(0, {"404"}), Error(0, {}),
     Error(503, {})}

\* the errors the ytdl stream emits
StreamErrors ==
    {Error(410, {}), Error(0, {"410"}), Error(403, {}), Error(0, {}), Error(503, {})}

\* the SyntaxError of request.json() and the Error('Download timeout') of the handler
PlainError == Error(0, {})

\* streams of the two lower heights, for the lists a metadata fetch returns
InfoStreams == {f \in Streams : f.height \in {720, 1080}}
InfoLists == UNION {[1..k -> InfoStreams] : k \in 0..MaxInfoFormats}

\* the inner catch of the metadata fetch: the status it answers, 0 when it rethrows
getInfoStatus(error) ==
    IF error.statusCode = 410 THEN 410
    ELSE IF error.statusCode = 403 \/ error.statusCode = 401 THEN 403
    ELSE IF error.contains \cap {"Private video", "Video unavailable", "not found"} # {}
    THEN 404
    ELSE IF "Sign in to confirm your age" \in error.contains THEN 403
    ELSE 0

\* the outermost catch: the status it answers
outerStatus(error) ==
    IF error.statusCode = 410 \/ "410" \in error.contains THEN 410
    ELSE IF error.statusCode = 403 \/ "403" \in error.contains THEN 403
    ELSE IF error.statusCode = 404 \/ "404" \in error.contains THEN 404
    ELSE IF error.statusCode # 0 THEN error.statusCode
    ELSE 500

\* `streamError.statusCode === 410 || streamError.message?.includes('410')`
is410(error) == error.statusCode = 410 \/ "410" \in error.contains

maxRetries == 3

IdleRequest ==
    [pc |-> "idle",          \* idle, body, getInfo, backoff, collect, direct, alternative,
                             \* relay, done
     ip |-> NoKey,           \* the client address of the request
     gate |-> "none",        \* what rateLimit answered: none, allowed, rejected
     winStart |-> 0,         \* history: the start of the window the rateLimit call fell in
     nth |-> 0,              \* history: the rank of that call among the calls of the window
     status |-> 0,           \* the status of the response, 0 while there is none
     resetTime |-> 0,        \* the resetTime of the response body, 0 when it has none
     parsed |-> FALSE,       \* request.json() was awaited
     validated |-> FALSE,    \* isValidYouTubeUrl was called
     retryCount |-> 0,
     delay |-> 0,            \* the wait in progress, in ms
     infoCalls |-> 0,        \* calls of ytdl.getInfo
     hasInfo |-> FALSE,      \* videoInfo is set
     info |-> << >>,         \* videoInfo.formats
     quality |-> "1080p",
     selected |-> 0,         \* selectedFormat, a position of info, 0 for none
     formats |-> << >>,      \* the combined list `formats`
     streams |-> 0,          \* calls of ytdl(url, ...)
     source |-> "none",      \* what the response body is read from
     fetches |-> 0,          \* calls of downloadFromUrl
     chunks |-> 0,           \* chunks enqueued to the response or pushed to `chunks`
     emitted |-> 0,          \* history: the data events of the relayed stream so far
     relayed |-> << >>,      \* the response's queue: of each chunk enqueued, its rank
                             \* among the chunks the source emitted
     sink |-> "none",        \* the ReadableStream of the response: none, open, closed,
                             \* errored, cancelled
     hasError |-> FALSE,     \* the relay's hasError
     destroyed |-> FALSE,    \* the handler called stream.destroy()
     overdue |-> FALSE,      \* more than MAX_DOWNLOAD_TIME passed since the transfer began
     lateData |-> FALSE,     \* history: a data event was handled after a cancel
     timedOut |-> FALSE,     \* the handler raised Error('Download timeout')
     failed |-> FALSE,       \* an error reached a catch that answers
     caught |-> "none",      \* the catch that answered it: none, inner, outer
     error |-> NoError]      \* that error

\* the POST variables outside a request
PostIdle == reqs = [r \in Requests |-> IdleRequest]

\* NextResponse.json(..., {status}) from the place that classified `error`
Answer(r, status, error) ==
    [reqs[r] EXCEPT !.pc = "done", !.status = status, !.failed = TRUE, !.error = error,
                    !.caught = "inner"]

\* a throw that reaches the outermost catch
Throw(r, error) == [Answer(r, outerStatus(error), error) EXCEPT !.caught = "outer"]

\* mutant: the 429 answer does not end the handler
gateRequest_noReturn(r, ip) ==
    LET result == rateLimit(ip)
        met == [reqs[r] EXCEPT !.ip = ip, !.winStart = WinBefore(ip).start,
                               !.nth = WinBefore(ip).calls + 1]
    IN IF ~result.allowed
       THEN [met EXCEPT !.pc = "body", !.gate = "rejected", !.status = 429,
                        !.resetTime = result.resetTime]
       ELSE [met EXCEPT !.pc = "body", !.gate = "allowed"]

\* the rate-limit gate, the first step of the handler
gateRequest(r, ip) ==
    LET result == rateLimit(ip)
        met == [reqs[r] EXCEPT !.ip = ip, !.winStart = WinBefore(ip).start,
                               !.nth = WinBefore(ip).calls + 1]
    IN IF ~result.allowed
       THEN [met EXCEPT !.pc = "done", !.gate = "rejected", !.status = 429,
                        !.resetTime = result.resetTime]
       ELSE [met EXCEPT !.pc = "body", !.gate = "allowed"]

\* the handler is entered: rateLimit(ip) and the 429 answer
Start(r, ip) ==
    /\ reqs[r].pc = "idle"
    /\ CanCall(ip)
    /\ store' = rateLimitStore(ip)
    /\ unswept' = unsweptStore(ip)
    /\ win' = WinAfter(ip, rateLimit(ip).allowed)
    /\ reqs' = [reqs EXCEPT ![r] = gateRequest(r, ip)]
    /\ UNCHANGED <<now, envLimit, nodeEnv, last, formatVars>>

\* mutant: a url without a video identifier goes on to the metadata fetch
validateBody_noIdCheck(r, body) ==
    LET read == [reqs[r] EXCEPT !.parsed = TRUE, !.quality = body.quality] IN
    IF body.url = "missing"
    THEN [read EXCEPT !.pc = "done", !.status = 400]
    ELSE IF body.url = "invalid"
    THEN [read EXCEPT !.pc = "done", !.status = 400, !.validated = TRUE]
    ELSE [read EXCEPT !.pc = "getInfo", !.validated = TRUE, !.infoCalls = 1]

\* request.json() resolved with `body`: validation, and the first metadata fetch
validateBody(r, body) ==
    LET read == [reqs[r] EXCEPT !.parsed = TRUE, !.quality = body.quality] IN
    IF body.url = "missing"
    THEN [read EXCEPT !.pc = "done", !.status = 400]
    ELSE IF body.url = "invalid"
    THEN [read EXCEPT !.pc = "done", !.status = 400, !.validated = TRUE]
    ELSE IF body.url = "noVideoId"
    THEN [read EXCEPT !.pc = "done", !.status = 400, !.validated = TRUE]
    ELSE [read EXCEPT !.pc = "getInfo", !.validated = TRUE, !.infoCalls = 1]

ParseBody(r, body) ==
    /\ reqs[r].pc = "body"
    /\ reqs' = [reqs EXCEPT ![r] = validateBody(r, body)]
    /\ UNCHANGED <<limiterVars, formatVars>>

\* request.json() rejected: the body is not JSON
ParseBodyFails(r) ==
    /\ reqs[r].pc = "body"
    /\ reqs' = [reqs EXCEPT ![r] = [Throw(r, PlainError) EXCEPT !.parsed = TRUE]]
    /\ UNCHANGED <<limiterVars, formatVars>>

\* the catch of a failed metadata fetch, once it gives up
classifyGetInfo(r, error) ==
    IF getInfoStatus(error) # 0 THEN Answer(r, getInfoStatus(error), error)
    ELSE Throw(r, error)

\* mutant: the wait before a retry does not grow with the attempt
getInfoFailed_fixedDelay(r, error) ==
    IF handler = "streaming"
    THEN LET counted == [reqs[r] EXCEPT !.retryCount = @ + 1] IN
         IF counted.retryCount >= maxRetries
         THEN [classifyGetInfo(r, error) EXCEPT !.retryCount = counted.retryCount]
         ELSE [counted EXCEPT !.pc = "backoff", !.delay = 1000]
    ELSE classifyGetInfo(r, error)

\* ytdl.getInfo rejected with `error`
getInfoFailed(r, error) ==
    IF handler = "streaming"
    THEN LET counted == [reqs[r] EXCEPT !.retryCount = @ + 1] IN
         IF counted.retryCount >= maxRetries
         THEN [classifyGetInfo(r, error) EXCEPT !.retryCount = counted.retryCount]
         ELSE [counted EXCEPT !.pc = "backoff", !.delay = 1000 * counted.retryCount]
    ELSE classifyGetInfo(r, error)

GetInfoFails(r, error) ==
    /\ reqs[r].pc = "getInfo"
    /\ reqs' = [reqs EXCEPT ![r] = getInfoFailed(r, error)]
    /\ UNCHANGED <<limiterVars, formatVars>>

\* the wait before a retry is over: the next metadata fetch
Backoff(r) ==
    /\ reqs[r].pc = "backoff"
    /\ reqs' = [reqs EXCEPT ![r].pc = "getInfo", ![r].delay = 0, ![r].infoCalls = @ + 1]
    /\ UNCHANGED <<limiterVars, formatVars>>

\* lines 162-213 of the streaming handler: the stream strategies, tried in order;
\* threw[k] says that the k-th strategy's call of ytdl(url, ...) throws
createStream(request, threw) ==
    LET f == request.info[request.selected]
        first == f.hasAudio /\ f.hasVideo
        made == IF first THEN 1 ELSE 0
    IN IF first /\ ~threw[1]
       THEN [request EXCEPT !.streams = 1, !.source = "selected"]
       ELSE IF ~threw[2]
       THEN [request EXCEPT !.streams = made + 1, !.source = "highest"]
       ELSE IF ~threw[3]
       THEN [request EXCEPT !.streams = made + 2, !.source = "lowest"]
       ELSE [request EXCEPT !.streams = made + 2]

\* ytdl.getInfo resolved with `formats`, streaming handler: selection, stream creation
\* and the streaming response
respondStreaming(r, formats, threw) ==
    LET chosen == selectFormatStreaming(formats, targetHeight(reqs[r].quality))
        known == [reqs[r] EXCEPT !.hasInfo = TRUE, !.info = formats,
                                 !.selected = chosen.selected, !.formats = chosen.formats]
        created == createStream(known, threw)
    IN IF chosen.selected = 0
       THEN [known EXCEPT !.pc = "done", !.status = 400]
       ELSE IF created.source = "none"
       THEN [created EXCEPT !.pc = "done", !.status = 500]
       ELSE [created EXCEPT !.pc = "relay", !.status = 200, !.sink = "open"]

\* mutant: the handler does not answer 400 when nothing was selected
startCollecting_noFormatCheck(r, formats) ==
    LET chosen == selectFormatBuffered(formats, targetHeight(reqs[r].quality))
    IN [reqs[r] EXCEPT !.hasInfo = TRUE, !.info = formats,
                       !.selected = chosen.selected, !.formats = chosen.formats,
                       !.pc = "collect", !.streams = 1]

\* ytdl.getInfo resolved with `formats`, buffered handler: selection and the ytdl stream
\* whose chunks the handler collects
startCollecting(r, formats) ==
    LET chosen == selectFormatBuffered(formats, targetHeight(reqs[r].quality))
        known == [reqs[r] EXCEPT !.hasInfo = TRUE, !.info = formats,
                                 !.selected = chosen.selected, !.formats = chosen.formats]
    IN IF chosen.selected = 0
       THEN [known EXCEPT !.pc = "done", !.status = 400]
       ELSE [known EXCEPT !.pc = "collect", !.streams = 1]

\* the stream strategies of which none throws
NoneThrew == [k \in 1..3 |-> FALSE]

GetInfoReturns(r, formats, threw) ==
    /\ reqs[r].pc = "getInfo"
    /\ handler = "buffered" => threw = NoneThrew
    /\ reqs' = [reqs EXCEPT ![r] =
                   IF handler = "streaming" THEN respondStreaming(r, formats, threw)
                   ELSE startCollecting(r, formats)]
    /\ UNCHANGED <<limiterVars, formatVars>>

\* more than MAX_DOWNLOAD_TIME has passed since the transfer of the request began.  The
\* buffered handler's timer marks that moment itself while it collects (CollectTimesOut).
Overdue(r) ==
    /\ reqs[r].pc \in {"relay", "direct", "alternative"}
    /\ ~reqs[r].overdue
    /\ reqs' = [reqs EXCEPT ![r].overdue = TRUE]
    /\ UNCHANGED <<limiterVars, formatVars>>

\* stream.on('data') of the streaming handler.  controller.enqueue throws unless the
\* response stream is readable; controller.error leaves a stream that is not readable
\* as it is.
relayData(r) ==
    LET request == [reqs[r] EXCEPT !.lateData = @ \/ reqs[r].sink = "cancelled",
                                   !.emitted = @ + 1] IN
    IF request.hasError THEN request
    ELSE IF request.overdue
    THEN [request EXCEPT !.destroyed = TRUE, !.hasError = TRUE, !.timedOut = TRUE,
                         !.sink = IF @ = "open" THEN "errored" ELSE @,
                         !.failed = TRUE, !.error = PlainError]
    ELSE IF request.sink = "open"
    THEN [request EXCEPT !.chunks = @ + 1, !.relayed = Append(@, request.emitted)]
    ELSE [request EXCEPT !.hasError = TRUE, !.destroyed = TRUE]

\* streaming handler: the source stream emits a chunk.  A chunk read before the stream
\* was destroyed may still be delivered after it.  The stream emits at most MaxChunks
\* chunks that are enqueued and one more.
RelayData(r) ==
    /\ reqs[r].pc = "relay"
    /\ reqs[r].emitted <= MaxChunks
    /\ \/ reqs[r].chunks < MaxChunks
       \/ reqs[r].hasError \/ reqs[r].overdue \/ reqs[r].sink # "open"
    /\ reqs' = [reqs EXCEPT ![r] = relayData(r)]
    /\ UNCHANGED <<limiterVars, formatVars>>

\* stream.on('end') of the streaming handler
relayEnd(r) ==
    IF ~reqs[r].hasError
    THEN [reqs[r] EXCEPT !.pc = "done", !.sink = IF @ = "open" THEN "closed" ELSE @]
    ELSE [reqs[r] EXCEPT !.pc = "done"]

\* streaming handler: the source stream ended; a destroyed stream emits no end
RelayEnds(r) ==
    /\ reqs[r].pc = "relay"
    /\ ~reqs[r].destroyed
    /\ reqs' = [reqs EXCEPT ![r] = relayEnd(r)]
    /\ UNCHANGED <<limiterVars, formatVars>>

\* mutant: an error of the source stream makes the relay create the stream again
relayError_recreates(r, error) ==
    [reqs[r] EXCEPT !.hasError = FALSE, !.streams = @ + 1]

\* mutant: the error handler closes the response instead of erroring it
relayError_closes(r, error) ==
    [reqs[r] EXCEPT !.pc = "done", !.hasError = TRUE,
                    !.sink = IF @ = "open" THEN "closed" ELSE @,
                    !.failed = TRUE, !.error = error]

\* stream.on('error') of the streaming handler: both branches call controller.error
relayError(r, error) ==
    [reqs[r] EXCEPT !.pc = "done", !.hasError = TRUE,
                    !.sink = IF @ = "open" THEN "errored" ELSE @,
                    !.failed = TRUE, !.error = error]

\* streaming handler: the source stream emitted `error`
RelayFails(r, error) ==
    /\ reqs[r].pc = "relay"
    /\ ~reqs[r].destroyed
    /\ reqs' = [reqs EXCEPT ![r] = relayError(r, error)]
    /\ UNCHANGED <<limiterVars, formatVars>>

\* mutant: cancel() abandons the source stream
cancelRelay_abandons(r) ==
    [reqs[r] EXCEPT !.sink = "cancelled"]

\* cancel() of the response stream
cancelRelay(r) ==
    [reqs[r] EXCEPT !.sink = "cancelled", !.destroyed = TRUE]

\* streaming handler: the client disconnected, the readable response stream is cancelled
Cancel(r) ==
    /\ reqs[r].pc = "relay"
    /\ reqs[r].sink = "open"
    /\ reqs' = [reqs EXCEPT ![r] = cancelRelay(r)]
    /\ UNCHANGED <<limiterVars, formatVars>>

\* streaming handler: the destroyed source stream has closed
RelayCloses(r) ==
    /\ reqs[r].pc = "relay"
    /\ reqs[r].destroyed
    /\ reqs' = [reqs EXCEPT ![r].pc = "done"]
    /\ UNCHANGED <<limiterVars, formatVars>>

\* stream.on('data') of the buffered handler
collectData(r) ==
    IF reqs[r].overdue
    THEN [Throw(r, PlainError) EXCEPT !.chunks = reqs[r].chunks + 1, !.destroyed = TRUE,
                                      !.timedOut = TRUE]
    ELSE [reqs[r] EXCEPT !.chunks = @ + 1]

\* buffered handler: the ytdl stream emits a chunk
CollectData(r) ==
    /\ reqs[r].pc = "collect"
    /\ reqs[r].chunks < MaxChunks
    /\ reqs' = [reqs EXCEPT ![r] = collectData(r)]
    /\ UNCHANGED <<limiterVars, formatVars>>

\* buffered handler: the ytdl stream ended, the buffer is the response
CollectEnds(r) ==
    /\ reqs[r].pc = "collect"
    /\ reqs' = [reqs EXCEPT ![r].pc = "done", ![r].status = 200, ![r].source = "selected"]
    /\ UNCHANGED <<limiterVars, formatVars>>

\* the catch of the collection: a 410 starts the direct fetch, anything else is rethrown
collectFailed(r, error) ==
    IF is410(error)
    THEN [reqs[r] EXCEPT !.pc = "direct", !.fetches = @ + 1]
    ELSE Throw(r, error)

\* buffered handler: the ytdl stream emitted `error` (or ytdl threw it)
CollectFails(r, error) ==
    /\ reqs[r].pc = "collect"
    /\ reqs' = [reqs EXCEPT ![r] = collectFailed(r, error)]
    /\ UNCHANGED <<limiterVars, formatVars>>

\* buffered handler: MAX_DOWNLOAD_TIME passed, the stream is destroyed
CollectTimesOut(r) ==
    /\ reqs[r].pc = "collect"
    /\ reqs' = [reqs EXCEPT ![r] = [collectFailed(r, PlainError) EXCEPT
                                        !.overdue = TRUE, !.destroyed = TRUE,
                                        !.timedOut = TRUE]]
    /\ UNCHANGED <<limiterVars, formatVars>>

\* buffered handler: downloadFromUrl(selectedFormat.url) resolved
DirectReturns(r) ==
    /\ reqs[r].pc = "direct"
    /\ reqs' = [reqs EXCEPT ![r].pc = "done", ![r].status = 200, ![r].source = "direct"]
    /\ UNCHANGED <<limiterVars, formatVars>>

\* mutant: a failed direct fetch ends the chain
directFailed_givesUp(r) == Throw(r, PlainError)

\* mutant: a failed direct fetch is tried again
directFailed_retries(r) == [reqs[r] EXCEPT !.fetches = @ + 1]

\* the catch of the direct fetch: the first other stream of `formats`, if there is one
directFailed(r) ==
    LET other(i) == i # reqs[r].selected
        alternativeFormats == SelectSeq(reqs[r].formats, other)
    IN IF Len(reqs[r].formats) > 1 /\ Len(alternativeFormats) > 0
       THEN [reqs[r] EXCEPT !.pc = "alternative", !.selected = alternativeFormats[1],
                            !.fetches = @ + 1]
       ELSE Throw(r, PlainError)

\* buffered handler: downloadFromUrl(selectedFormat.url) rejected
DirectFails(r) ==
    /\ reqs[r].pc = "direct"
    /\ reqs' = [reqs EXCEPT ![r] = directFailed(r)]
    /\ UNCHANGED <<limiterVars, formatVars>>

\* buffered handler: the fetch of the alternative stream resolved
AlternativeReturns(r) ==
    /\ reqs[r].pc = "alternative"
    /\ reqs' = [reqs EXCEPT ![r].pc = "done", ![r].status = 200,
                            ![r].source = "alternative"]
    /\ UNCHANGED <<limiterVars, formatVars>>

\* buffered handler: the fetch of the alternative stream rejected
AlternativeFails(r) ==
    /\ reqs[r].pc = "alternative"
    /\ reqs' = [reqs EXCEPT ![r] = Throw(r, PlainError)]
    /\ UNCHANGED <<limiterVars, formatVars>>

\* the request is over; the next one of the same connection slot may come
Recycle(r) ==
    /\ reqs[r].pc = "done"
    /\ reqs' = [reqs EXCEPT ![r] = IdleRequest]
    /\ UNCHANGED <<limiterVars, formatVars>>

(***************************************************************************)
(* The format selection on its own: one stream list, one requested         *)
(* quality, one run of the selection.                                      *)
(***************************************************************************)
InitFormat ==
    /\ handler \in Handlers
    /\ infoFormats \in FormatLists(MaxFormats)
    /\ quality \in Qualities
    /\ picked = NotPicked
    /\ NameIdle
    /\ LimiterIdle
    /\ PostIdle

Resolve ==
    /\ ~picked.done
    /\ LET r == selectFormat(infoFormats, targetHeight(quality)) IN
         picked' = [done |-> TRUE, selected |-> r.selected, formats |-> r.formats]
    /\ UNCHANGED <<handler, infoFormats, quality, nameVars, limiterVars, postVars>>

NextFormat == Resolve

SpecFormat == InitFormat /\ [][NextFormat]_vars

(***************************************************************************)
(* The filename on its own: one title, one response named after it.        *)
(***************************************************************************)
InitName ==
    /\ title \in Titles
    /\ filename = << >>
    /\ handler \in Handlers
    /\ infoFormats = << >> /\ quality = "1080p" /\ picked = NotPicked
    /\ LimiterIdle
    /\ PostIdle

NameFile ==
    /\ filename = << >>
    /\ filename' = makeFilename(title)
    /\ UNCHANGED <<title, handler, selectionVars, limiterVars, postVars>>

NextName == NameFile

SpecName == InitName /\ [][NextName]_vars

(***************************************************************************)
(* Claims about the format selection, checked under SpecFormat.            *)
(***************************************************************************)
IsCombined(f) == f.hasAudio /\ f.hasVideo
IsVideoOnly(f) == f.hasVideo /\ ~f.hasAudio
IsAudioOnly(f) == f.hasAudio /\ ~f.hasVideo

Positions == 1..Len(infoFormats)
CombinedAt == {i \in Positions : IsCombined(infoFormats[i])}
VideoOnlyAt == {i \in Positions : IsVideoOnly(infoFormats[i])}
AudioOnlyAt == {i \in Positions : IsAudioOnly(infoFormats[i])}
requestedHeight == targetHeight(quality)

\* C7: if some combined stream has exactly the requested height, the selection returns a
\* combined stream of exactly that height, whatever else the list holds and in any order.
C7_ExactCombinedPreferred ==
    (picked.done /\ \E i \in CombinedAt : infoFormats[i].height = requestedHeight) =>
        /\ picked.selected \in CombinedAt
        /\ infoFormats[picked.selected].height = requestedHeight

\* C7 witness: the exact combined stream is selected although a higher combined stream
\* precedes it in the list and a video-only stream is present.
C7_Witness ==
    /\ picked.done /\ picked.selected \in CombinedAt
    /\ infoFormats[picked.selected].height = requestedHeight
    /\ \E i \in CombinedAt :
          i < picked.selected /\ infoFormats[i].height > requestedHeight
    /\ VideoOnlyAt # {}

\* C8: if the list holds a combined stream, the selection returns a combined stream (it
\* neither fails nor returns a video-only stream), and when no combined stream reaches the
\* requested height it returns a combined stream of the greatest combined height.
C8_SomeCombinedAlwaysServed ==
    (picked.done /\ CombinedAt # {}) =>
        /\ picked.selected \in CombinedAt
        /\ (\A i \in CombinedAt : infoFormats[i].height < requestedHeight) =>
               \A i \in CombinedAt :
                   infoFormats[i].height <= infoFormats[picked.selected].height

\* C8 witness: 1080 is requested, the combined streams stop at 720, a video-only stream of
\* 1080 exists, and the 720 combined stream is selected.
C8_Witness ==
    /\ picked.done /\ requestedHeight = 1080
    /\ picked.selected \in CombinedAt /\ infoFormats[picked.selected].height = 720
    /\ \A i \in CombinedAt : infoFormats[i].height <= 720
    /\ \E i \in VideoOnlyAt : infoFormats[i].height = 1080

\* C9: with no combined stream, at least one video-only stream and at least one audio-only
\* stream, the selection returns a video-only stream and does not fail.
C9_SplitReturnsVideoOnly ==
    (picked.done /\ CombinedAt = {} /\ VideoOnlyAt # {} /\ AudioOnlyAt # {}) =>
        picked.selected \in VideoOnlyAt

\* C9 witness: two video-only streams and one audio-only stream, one of the video-only
\* streams is selected.
C9_Witness ==
    /\ picked.done /\ CombinedAt = {}
    /\ Cardinality(VideoOnlyAt) = 2 /\ AudioOnlyAt # {}
    /\ picked.selected \in VideoOnlyAt

\* C25: when no combined stream has exactly the requested height and some combined
\* stream reaches it, the selection returns the combined stream closest to the requested
\* height from above: one of the smallest combined height that is >= the requested one.
C25_ClosestAboveCombined ==
    (/\ picked.done
     /\ \A i \in CombinedAt : infoFormats[i].height # requestedHeight
     /\ \E i \in CombinedAt : infoFormats[i].height >= requestedHeight) =>
        /\ picked.selected \in CombinedAt
        /\ infoFormats[picked.selected].height >= requestedHeight
        /\ \A i \in CombinedAt :
              infoFormats[i].height >= requestedHeight =>
                  infoFormats[picked.selected].height <= infoFormats[i].height

InitLimiter ==
    /\ store = << >> /\ unswept = << >>
    /\ now = 0
    /\ envLimit \in {<<n>> : n \in 0..MaxLimit}
    /\ nodeEnv = "production"
    /\ last = NoCall
    /\ win = << >>
    /\ FormatIdle
    /\ PostIdle

RateLimitCall(key) ==
    /\ CanCall(key)
    /\ store' = rateLimitStore(key)
    /\ unswept' = unsweptStore(key)
    /\ last' = CallRecord(key)
    /\ win' = WinAfter(key, rateLimit(key).allowed)
    /\ UNCHANGED <<now, envLimit, nodeEnv, formatVars, postVars>>

Sweep ==
    /\ store' = sweepStore
    /\ UNCHANGED <<now, envLimit, nodeEnv, last, win, unswept, formatVars, postVars>>

\* the clock moves by a whole window or by 1 ms more: a call made a whole window after
\* the window's first call is at its last instant, one made 1 ms later is after its end
Deltas == {RATE_LIMIT_WINDOW, RATE_LIMIT_WINDOW + 1}

Tick(d) ==
    /\ now + d <= MaxWindows * (RATE_LIMIT_WINDOW + 1)
    /\ now' = now + d
    /\ UNCHANGED <<store, envLimit, nodeEnv, last, win, unswept, formatVars, postVars>>

NextLimiter ==
    \/ \E key \in Keys : RateLimitCall(key)
    \/ Sweep
    \/ \E d \in Deltas : Tick(d)

SpecLimiter == InitLimiter /\ [][NextLimiter]_vars

(***************************************************************************)
(* One client sending one request after the other, to either handler, with *)
(* every url, every answer of the metadata fetch and every outcome of the  *)
(* byte fetch; the limit is set through the environment and all requests   *)
(* fall into one window.  The streams of a metadata answer are 720 or 1080 *)
(* high, so one quality label at their top and one above it tell all       *)
(* requested heights apart.                                                *)
(***************************************************************************)
PostBodies == [url : Urls, quality : {"1080p", "1440p"}]

InitPost ==
    /\ store = << >> /\ now = 0 /\ last = NoCall /\ win = << >> /\ unswept = << >>
    /\ envLimit = <<1>> /\ nodeEnv = "production"
    /\ handler \in Handlers
    /\ FormatSelectionIdle
    /\ PostIdle

NextPost ==
    \/ Start("r1", "ip1")
    \/ \E body \in PostBodies : ParseBody("r1", body)
    \/ ParseBodyFails("r1")
    \/ \E error \in GetInfoErrors : GetInfoFails("r1", error)
    \/ Backoff("r1")
    \/ \E formats \in InfoLists, threw \in [1..3 -> BOOLEAN] :
          GetInfoReturns("r1", formats, threw)
    \/ Overdue("r1")
    \/ RelayData("r1")
    \/ RelayEnds("r1")
    \/ \E error \in StreamErrors : RelayFails("r1", error)
    \/ Cancel("r1")
    \/ RelayCloses("r1")
    \/ CollectData("r1")
    \/ CollectEnds("r1")
    \/ \E error \in StreamErrors : CollectFails("r1", error)
    \/ CollectTimesOut("r1")
    \/ DirectReturns("r1")
    \/ DirectFails("r1")
    \/ AlternativeReturns("r1")
    \/ AlternativeFails("r1")
    \/ Recycle("r1")

SpecPost == InitPost /\ [][NextPost]_vars

\* the same with the handler's own timers going off (the download timer of the buffered
\* handler, the wait before a retry) and a stream the handler destroyed closing.  What
\* the client, the extraction library and the network do next, and when, is not the
\* handler's to decide.
SpecPostFair ==
    /\ SpecPost
    /\ WF_vars(CollectTimesOut("r1"))
    /\ WF_vars(Backoff("r1"))
    /\ WF_vars(RelayCloses("r1"))

(***************************************************************************)
(* The byte fetch of the buffered handler and its fallback chain: one      *)
(* client, a valid url, and a metadata answer of up to MaxChainFormats     *)
(* combined streams in any order, or of one video-only and one audio-only  *)
(* stream.                                                                 *)
(***************************************************************************)
ChainBodies == [url : {"ok"}, quality : {"1080p"}]

ChainStreams == [height : {720, 1080, 1440}, hasAudio : {TRUE}, hasVideo : {TRUE}]

ChainLists ==
    UNION {[1..k -> ChainStreams] : k \in 1..MaxChainFormats}
    \cup {<<[height |-> 1080, hasAudio |-> FALSE, hasVideo |-> TRUE],
             [height |-> NoHeight, hasAudio |-> TRUE, hasVideo |-> FALSE]>>}

InitChain ==
    /\ store = << >> /\ now = 0 /\ last = NoCall /\ win = << >> /\ unswept = << >>
    /\ envLimit = <<1>> /\ nodeEnv = "production"
    /\ handler = "buffered"
    /\ FormatSelectionIdle
    /\ PostIdle

NextChain ==
    \/ Start("r1", "ip1")
    \/ \E body \in ChainBodies : ParseBody("r1", body)
    \/ \E formats \in ChainLists : GetInfoReturns("r1", formats, NoneThrew)
    \/ CollectData("r1")
    \/ CollectEnds("r1")
    \/ \E error \in StreamErrors : CollectFails("r1", error)
    \/ CollectTimesOut("r1")
    \/ Overdue("r1")
    \/ DirectReturns("r1")
    \/ DirectFails("r1")
    \/ AlternativeReturns("r1")
    \/ AlternativeFails("r1")
    \/ Recycle("r1")

SpecChain == InitChain /\ [][NextChain]_vars

(***************************************************************************)
(* The catches of both handlers: one client, a valid url, and errors that  *)
(* carry a status code, status-like text in their message, or both.        *)
(***************************************************************************)
CatchErrors == {Error(code, texts) : code \in {0, 403, 404, 410},
                                     texts \in SUBSET {"410", "403", "404"}}

\* the metadata answer: one combined stream of the requested height
CatchLists == {<<[height |-> 1080, hasAudio |-> TRUE, hasVideo |-> TRUE]>>}

InitCatch ==
    /\ store = << >> /\ now = 0 /\ last = NoCall /\ win = << >> /\ unswept = << >>
    /\ envLimit = <<1>> /\ nodeEnv = "production"
    /\ handler \in Handlers
    /\ FormatSelectionIdle
    /\ PostIdle

NextCatch ==
    \/ Start("r1", "ip1")
    \/ \E body \in ChainBodies : ParseBody("r1", body)
    \/ ParseBodyFails("r1")
    \/ \E error \in CatchErrors : GetInfoFails("r1", error)
    \/ Backoff("r1")
    \/ \E formats \in CatchLists : GetInfoReturns("r1", formats, NoneThrew)
    \/ RelayEnds("r1")
    \/ \E error \in CatchErrors : RelayFails("r1", error)
    \/ CollectEnds("r1")
    \/ \E error \in CatchErrors : CollectFails("r1", error)
    \/ CollectTimesOut("r1")
    \/ DirectReturns("r1")
    \/ DirectFails("r1")
    \/ Recycle("r1")

SpecCatch == InitCatch /\ [][NextCatch]_vars

(***************************************************************************)
(* The relay of the streaming handler: one client, a valid url, a metadata *)
(* answer of one combined stream, and every order of the source's data,    *)
(* end and error events, the download time running out and the client      *)
(* going away.                                                             *)
(***************************************************************************)
InitRelay ==
    /\ store = << >> /\ now = 0 /\ last = NoCall /\ win = << >> /\ unswept = << >>
    /\ envLimit = <<1>> /\ nodeEnv = "production"
    /\ handler = "streaming"
    /\ FormatSelectionIdle
    /\ PostIdle

NextRelay ==
    \/ Start("r1", "ip1")
    \/ \E body \in ChainBodies : ParseBody("r1", body)
    \/ \E formats \in CatchLists, threw \in [1..3 -> BOOLEAN] :
          GetInfoReturns("r1", formats, threw)
    \/ Overdue("r1")
    \/ RelayData("r1")
    \/ RelayEnds("r1")
    \/ \E error \in StreamErrors : RelayFails("r1", error)
    \/ Cancel("r1")
    \/ RelayCloses("r1")
    \/ Recycle("r1")

SpecRelay == InitRelay /\ [][NextRelay]_vars

(***************************************************************************)
(* Concurrent requests of one client at the rate-limit gate, with sweeps   *)
(* and the clock: the requests interleave at every await, and a request    *)
(* that passed the gate goes on to an invalid url, a failing metadata      *)
(* fetch, an empty stream list or a download.                              *)
(***************************************************************************)
GateBodies == [url : {"invalid", "noVideoId", "ok"}, quality : {"1080p"}]
GateLists == {<< >>, <<[height |-> 1080, hasAudio |-> TRUE, hasVideo |-> TRUE]>>}

InitGate ==
    /\ store = << >> /\ now = 0 /\ last = NoCall /\ win = << >> /\ unswept = << >>
    /\ envLimit \in {<<n>> : n \in 0..MaxLimit} /\ nodeEnv = "production"
    /\ handler \in Handlers
    /\ FormatSelectionIdle
    /\ PostIdle

NextGate ==
    \/ \E r \in Requests : Start(r, "ip1")
    \/ \E r \in Requests, body \in GateBodies : ParseBody(r, body)
    \/ \E r \in Requests : GetInfoFails(r, Error(403, {}))
    \/ \E r \in Requests : Backoff(r)
    \/ \E r \in Requests, formats \in GateLists : GetInfoReturns(r, formats, NoneThrew)
    \/ \E r \in Requests : RelayEnds(r)
    \/ \E r \in Requests : CollectEnds(r)
    \/ \E r \in Requests : Recycle(r)
    \/ Sweep
    \/ \E d \in Deltas : Tick(d)

SpecGate == InitGate /\ [][NextGate]_vars

(***************************************************************************)
(* One client sending one request after the other with no limit set        *)
(* through the environment, in production or in development.               *)
(***************************************************************************)
InitDefault ==
    /\ store = << >> /\ now = 0 /\ last = NoCall /\ win = << >> /\ unswept = << >>
    /\ envLimit = << >> /\ nodeEnv \in {"production", "development"}
    /\ handler \in Handlers
    /\ FormatSelectionIdle
    /\ PostIdle

NextDefault ==
    \/ Start("r1", "ip1")
    \/ \E body \in GateBodies : ParseBody("r1", body)
    \/ \E formats \in GateLists : GetInfoReturns("r1", formats, NoneThrew)
    \/ RelayEnds("r1")
    \/ CollectEnds("r1")
    \/ Recycle("r1")
    \/ Sweep
    \/ \E d \in Deltas : Tick(d)

SpecDefault == InitDefault /\ [][NextDefault]_vars

(***************************************************************************)
(* Claims about the rate limiter, checked under SpecLimiter.               *)
(***************************************************************************)
Called == last.key # NoKey

\* C1: for every limit L >= 1, a call that follows exactly L accepted calls of its key in
\* the same window is rejected, and the first call of a key after its window's end is
\* accepted and leaves the stored count at 1.
C1_RejectAfterLimitAcceptAfterWindow ==
    (Called /\ MAX_REQUESTS_PER_WINDOW >= 1) =>
        /\ (~last.fresh /\ last.acceptedBefore = MAX_REQUESTS_PER_WINDOW) => ~last.allowed
        /\ last.fresh => (last.allowed /\ last.count = 1)

\* C1 witness: a key used up a window of limit >= 2 and was rejected in it, and its first
\* call after that window's end, with the old entry still in the table, is accepted.
C1_Witness ==
    /\ Called /\ MAX_REQUESTS_PER_WINDOW >= 2
    /\ last.fresh /\ last.hadWindow /\ last.hadEntry
    /\ last.prevAccepted = MAX_REQUESTS_PER_WINDOW
    /\ last.prevCalls > last.prevAccepted
    /\ last.allowed /\ last.count = 1

\* C2: a rejected call leaves the whole rate table unchanged and returns remaining = 0
\* and the stored window end as resetTime.
C2_RejectedCallChangesNothing ==
    [][\A key \in Keys :
        (RateLimitCall(key) /\ ~last'.allowed) =>
            /\ store' = store
            /\ last'.remaining = 0
            /\ key \in DOMAIN store /\ last'.resetTime = store[key].resetTime]_vars

\* C2 witness: a call was rejected while another key also holds an entry.
C2_Witness ==
    /\ Called /\ ~last.allowed /\ last.remaining = 0
    /\ DOMAIN store = Keys
    /\ last.resetTime = store[last.key].resetTime

\* C3: for every limit L >= 1 the k-th accepted call of a window returns remaining = L - k,
\* and every call of the window returns resetTime = time of the window's first call + 60 s.
C3_RemainingAndResetTime ==
    (Called /\ MAX_REQUESTS_PER_WINDOW >= 1) =>
        /\ last.allowed =>
                last.remaining = MAX_REQUESTS_PER_WINDOW - (last.acceptedBefore + 1)
        /\ last.resetTime = last.start + Minute

\* C3 witness: limit 2, the third call of a window, made after its first call, is rejected
\* with the first call's time + 60 s.
C3_Witness ==
    /\ Called /\ MAX_REQUESTS_PER_WINDOW = 2
    /\ last.callsBefore = 2 /\ last.acceptedBefore = 2 /\ ~last.allowed
    /\ last.at > last.start
    /\ last.resetTime = last.start + Minute

\* C23: a run of the sweep at time t deletes every entry whose window end has passed
\* (resetTime < t) and leaves every other entry, with its count and resetTime, as it
\* was; it adds none.  Checked under SpecLimiter.
C23_SweepDeletesExpiredOnly ==
    [][Sweep =>
          /\ DOMAIN store' \subseteq DOMAIN store
          /\ \A key \in DOMAIN store :
                IF store[key].resetTime < now
                THEN key \notin DOMAIN store'
                ELSE key \in DOMAIN store' /\ store'[key] = store[key]]_vars

\* C23 witness: the entry of one key has been swept away, and the entry of another key,
\* whose window ends at this very instant, is in the table with its count.
C23_Witness ==
    \E gone, kept \in Keys :
        /\ gone \in DOMAIN win /\ gone \notin DOMAIN store
        /\ kept \in DOMAIN store /\ store[kept].resetTime = now
        /\ store[kept].count = win[kept].accepted /\ store[kept].count >= 1

\* C24: a call that increments an existing count is made strictly before that window's
\* end, and a call made at or after the window's end starts a new window with count 1
\* and windowEnd = now + W.  Checked under SpecLimiter.
C24_IncrementOnlyBeforeWindowEnd ==
    [][\A key \in DOMAIN store :
          RateLimitCall(key) =>
              IF now >= store[key].resetTime
              THEN store'[key] = [count |-> 1, resetTime |-> now + RATE_LIMIT_WINDOW]
              ELSE store'[key].resetTime = store[key].resetTime]_vars

\* C33: for every integer limit >= 0, 0 included, the calls accepted for one key inside
\* one window never outnumber the limit, and no call returns a negative remaining.
C33_WithinLimitNeverNegative ==
    /\ \A key \in DOMAIN win : win[key].accepted <= MAX_REQUESTS_PER_WINDOW
    /\ Called => last.remaining >= 0

\* C32: the cleanup is invisible to callers: whatever calls, clock advances and cleanup
\* runs came before, a rateLimit call by any key returns the same allowed, remaining and
\* resetTime as it does after the same calls at the same times with no cleanup run.
C32_SweepInvisible ==
    \A key \in Keys : rateLimit(key) = unsweptResult(key)

\* C32 witness: a key that had called before called again and met no entry: the cleanup
\* had deleted it, and the table without cleanup still holds it.
C32_Witness ==
    /\ Called /\ last.hadWindow /\ ~last.hadEntry
    /\ \E key \in DOMAIN unswept : key \notin DOMAIN store

(***************************************************************************)
(* Claims about the POST handlers.                                         *)
(***************************************************************************)
\* C4: a request that rateLimit rejects is answered 429 with the window's resetTime in
\* the body and does nothing downstream: no body parsing, no URL validation, no
\* metadata fetch, no stream.  Checked under SpecGate.
C4_RejectedBeforeDownstream ==
    \A r \in Requests :
        reqs[r].gate = "rejected" =>
            /\ reqs[r].pc = "done" /\ reqs[r].status = 429
            /\ reqs[r].resetTime = reqs[r].winStart + Minute
            /\ ~reqs[r].parsed /\ ~reqs[r].validated
            /\ reqs[r].infoCalls = 0 /\ ~reqs[r].hasInfo
            /\ reqs[r].streams = 0 /\ reqs[r].fetches = 0

\* C4 witness: a request is rejected in a window that started after time 0, while an
\* admitted request of the same client has fetched metadata and created its stream.
C4_Witness ==
    \E r, q \in Requests :
        /\ reqs[r].gate = "rejected" /\ reqs[r].status = 429 /\ reqs[r].winStart > 0
        /\ reqs[q].gate = "allowed" /\ reqs[q].infoCalls > 0 /\ reqs[q].streams > 0

\* C5: with no limit set through the environment a client is allowed at most 10
\* requests per window: the 11th request of a window is answered 429.  Checked under
\* SpecDefault.
C5_TenRequestsPerMinute ==
    Len(envLimit) = 0 =>
        /\ \A key \in DOMAIN win : win[key].accepted <= 10
        /\ \A r \in Requests :
              (reqs[r].gate # "none" /\ reqs[r].nth = 11) => reqs[r].status = 429

\* C6: whatever the interleaving of the requests, the number of requests admitted for a
\* key in one window never exceeds the limit, and the stored count of a live window is
\* the number of requests admitted in it.  Checked under SpecGate.
C6_AdmittedWithinLimit ==
    \A key \in DOMAIN win :
        /\ win[key].accepted <= MAX_REQUESTS_PER_WINDOW
        /\ ~WindowOver(key) =>
              (key \in DOMAIN store /\ store[key].count = win[key].accepted)

\* C6 for the limits from 1 on, where it holds in every interleaving
C6_AdmittedWithinPositiveLimit ==
    MAX_REQUESTS_PER_WINDOW >= 1 => C6_AdmittedWithinLimit

\* C10: a metadata fetch that succeeds with an empty stream list ends in no selection
\* and a 400 answer, with no stream created and no byte fetched.  Checked under SpecPost.
C10_EmptyListAnswers400 ==
    \A r \in Requests :
        (reqs[r].hasInfo /\ reqs[r].info = << >>) =>
            /\ reqs[r].selected = 0
            /\ reqs[r].pc = "done" /\ reqs[r].status = 400
            /\ reqs[r].streams = 0 /\ reqs[r].fetches = 0 /\ reqs[r].source = "none"

\* C10 witness: the metadata fetch returned the empty list and the answer is 400.
C10_Witness ==
    \E r \in Requests :
        /\ reqs[r].hasInfo /\ reqs[r].info = << >> /\ reqs[r].infoCalls >= 1
        /\ reqs[r].status = 400 /\ reqs[r].validated

\* the stream whose bytes a request serves has both audio and video: the streams that
\* ytdl picks under the filter 'videoandaudio' have, the selected one may not
ServesCombined(r) ==
    reqs[r].source \in {"selected", "direct", "alternative"} =>
        IsCombined(reqs[r].info[reqs[r].selected])

\* C36: if the stream list has no combined stream and lacks a video-only stream or an
\* audio-only stream, nothing is selected and the request is answered 400 with no stream
\* created and no byte fetched, also when a video-only stream exists.  Checked under
\* SpecPost.
C36_NoPairAnswers400 ==
    \A r \in Requests :
        (/\ reqs[r].hasInfo
         /\ \A i \in DOMAIN reqs[r].info : ~IsCombined(reqs[r].info[i])
         /\ \/ \A i \in DOMAIN reqs[r].info : ~IsVideoOnly(reqs[r].info[i])
            \/ \A i \in DOMAIN reqs[r].info : ~IsAudioOnly(reqs[r].info[i])) =>
            /\ reqs[r].selected = 0
            /\ reqs[r].pc = "done" /\ reqs[r].status = 400 /\ ~reqs[r].failed
            /\ reqs[r].streams = 0 /\ reqs[r].fetches = 0 /\ reqs[r].source = "none"

\* C36 witness: the list holds video-only streams and nothing else, and the answer is 400.
C36_Witness ==
    \E r \in Requests :
        /\ reqs[r].hasInfo /\ Len(reqs[r].info) = MaxInfoFormats
        /\ \A i \in DOMAIN reqs[r].info : IsVideoOnly(reqs[r].info[i])
        /\ reqs[r].selected = 0 /\ reqs[r].status = 400

\* C12: every request answered 200 serves the bytes of a stream with both audio and
\* video, never those of a video-only stream.  Checked under SpecPost.
C12_EveryDownloadHasAudio ==
    \A r \in Requests :
        (reqs[r].status = 200 /\ reqs[r].source # "none") => ServesCombined(r)

\* a failure of the metadata fetch was surfaced to the caller
GetInfoSurfaced(r) ==
    reqs[r].pc = "done" /\ reqs[r].failed /\ reqs[r].infoCalls >= 1 /\ ~reqs[r].hasInfo

\* C13: in one request of the handler with the retry loop, getInfo is invoked at most 3
\* times, never again after a success, a failure is surfaced only after the third failed
\* attempt, and the handler waits k seconds after the k-th failed attempt for k = 1, 2
\* and does not wait after the third.  Checked under SpecPost.
C13_AtMostThreeAttemptsLinearBackoff ==
    /\ [](\A r \in Requests :
            handler = "streaming" =>
                /\ reqs[r].infoCalls <= 3
                /\ GetInfoSurfaced(r) => (reqs[r].retryCount = 3 /\ reqs[r].infoCalls = 3)
                /\ reqs[r].pc = "backoff" =>
                       (reqs[r].retryCount \in {1, 2}
                        /\ reqs[r].delay = 1000 * reqs[r].retryCount))
    /\ [][\A r \in Requests :
            handler = "streaming" =>
                /\ reqs'[r].infoCalls > reqs[r].infoCalls => ~reqs[r].hasInfo
                /\ \A error \in GetInfoErrors :
                       GetInfoFails(r, error) =>
                           IF reqs[r].retryCount + 1 < 3
                           THEN /\ reqs'[r].pc = "backoff"
                                /\ reqs'[r].delay = 1000 * (reqs[r].retryCount + 1)
                           ELSE reqs'[r].pc = "done" /\ reqs'[r].delay = 0]_vars

\* C13 witness: the third attempt failed after two waits and the failure was surfaced
\* as a 500 answer.
C13_Witness ==
    /\ handler = "streaming"
    /\ GetInfoSurfaced("r1") /\ reqs["r1"].retryCount = 3 /\ reqs["r1"].infoCalls = 3
    /\ reqs["r1"].status = 500

\* C14: a metadata-fetch failure classified as AccessRestricted (401, 403, age-gated) or
\* NotFound (private, unavailable, not found) is never retried: the handler answers 403
\* or 404 after that single attempt and does not invoke getInfo again.  Checked under
\* SpecPost.
C14_RestrictedNeverRetried ==
    [][\A r \in Requests, error \in GetInfoErrors :
          (GetInfoFails(r, error) /\ getInfoStatus(error) \in {403, 404}) =>
              /\ reqs'[r].pc = "done"
              /\ reqs'[r].status = getInfoStatus(error)
              /\ reqs'[r].infoCalls = 1]_vars

\* the combined streams of the request's list other than the selected one
OtherCombined(r) ==
    {i \in 1..Len(reqs[r].info) : IsCombined(reqs[r].info[i]) /\ i # reqs[r].selected}

\* C15: when the primary stream failed with a 410-class error and the direct fetch of the
\* selected stream's URL fails too, the handler fetches another combined stream if the
\* list holds one, and when that fetch succeeds the request is answered 200 with the
\* alternative's bytes and no error.  Checked under SpecPost.
C15_AlternativeServedAfter410 ==
    [][\A r \in Requests :
          /\ (DirectFails(r) /\ OtherCombined(r) # {}) =>
                 /\ reqs'[r].pc = "alternative"
                 /\ reqs'[r].selected \in OtherCombined(r)
          /\ AlternativeReturns(r) =>
                 /\ reqs'[r].pc = "done" /\ reqs'[r].status = 200
                 /\ reqs'[r].source = "alternative" /\ ~reqs'[r].failed
                 /\ IsCombined(reqs[r].info[reqs'[r].selected])]_vars

\* C15 witness: the stream failed, two fetches were made and the second, of another
\* combined stream than the one selected first, gave the 200 answer.
C15_Witness ==
    /\ handler = "buffered"
    /\ reqs["r1"].pc = "done" /\ reqs["r1"].status = 200 /\ ~reqs["r1"].failed
    /\ reqs["r1"].source = "alternative" /\ reqs["r1"].fetches = 2
    /\ reqs["r1"].streams = 1

\* C16: when the primary stream failed with a 410-class error and the fallback chain is
\* exhausted (the direct fetch failed, and the alternative fetch failed or there was no
\* alternative), the request is answered 410.  Checked under SpecPost.
C16_ExhaustedChainAnswers410 ==
    \A r \in Requests :
        (reqs[r].pc = "done" /\ reqs[r].fetches >= 1 /\ reqs[r].failed) =>
            reqs[r].status = 410

\* C17: whenever a transfer is still going on more than 50 seconds after it began, be the
\* source silent or a fallback fetch in progress, the source transfer is eventually
\* destroyed and a timeout failure raised, whatever was received before.  Stated in the
\* form that asks least: a transfer that ends by itself after the ceiling is let pass,
\* one that goes on must be destroyed with a timeout.  Checked under SpecPostFair.
C17_TransferBoundedByCeiling ==
    \A r \in Requests :
        (reqs[r].overdue /\ reqs[r].pc \in {"relay", "collect", "direct", "alternative"}) ~>
            (reqs[r].pc = "done" \/ (reqs[r].destroyed /\ reqs[r].timedOut))

\* C18: when the response stream is cancelled while the source stream is in flight, the
\* source stream is destroyed, and no chunk is enqueued to the response after that.
\* Checked under SpecPost.
C18_CancelDestroysSource ==
    /\ [](\A r \in Requests : reqs[r].sink = "cancelled" => reqs[r].destroyed)
    /\ [][\A r \in Requests :
            reqs[r].sink = "cancelled" => reqs'[r].chunks <= reqs[r].chunks]_vars

\* C18 witness: the response was cancelled after a chunk, the source stream is destroyed,
\* and a chunk that arrived after the cancel was not enqueued.
C18_Witness ==
    /\ reqs["r1"].sink = "cancelled" /\ reqs["r1"].destroyed
    /\ reqs["r1"].chunks = 1 /\ reqs["r1"].lateData /\ reqs["r1"].hasError

\* the first bytes of the response body have been handed to the client: a chunk was
\* enqueued to the streaming response, or the buffered response was returned
Delivered(r) ==
    IF handler = "streaming" THEN reqs[r].chunks >= 1
    ELSE reqs[r].pc = "done" /\ reqs[r].status = 200 /\ reqs[r].source # "none"

\* C19: once the first chunk has been delivered, the request starts no metadata fetch, no
\* stream and no fallback fetch any more, and a source error or a timeout after it ends
\* the request in a failure.  Checked under SpecPost.
C19_NoRetryAfterDelivery ==
    [][\A r \in Requests :
          Delivered(r) =>
              /\ reqs'[r].infoCalls <= reqs[r].infoCalls
              /\ reqs'[r].streams <= reqs[r].streams
              /\ reqs'[r].fetches <= reqs[r].fetches
              /\ (\E error \in StreamErrors : RelayFails(r, error)) =>
                     (reqs'[r].pc = "done" /\ reqs'[r].failed /\ reqs'[r].hasError)
              /\ (RelayData(r) /\ reqs[r].overdue /\ ~reqs[r].hasError) =>
                     (reqs'[r].timedOut /\ reqs'[r].failed /\ reqs'[r].hasError
                      /\ reqs'[r].destroyed)]_vars

\* C19 witness: the source stream failed after a chunk was enqueued and the request
\* ended in a failure with one metadata fetch, one stream and no fallback fetch.
C19_Witness ==
    /\ handler = "streaming"
    /\ reqs["r1"].chunks >= 1 /\ reqs["r1"].pc = "done" /\ reqs["r1"].failed
    /\ reqs["r1"].sink = "errored" /\ ~reqs["r1"].timedOut
    /\ reqs["r1"].infoCalls = 1 /\ reqs["r1"].streams = 1 /\ reqs["r1"].fetches = 0

\* the classes of the error taxonomy an error falls in by its status code or message
Classified(error) ==
    \/ error.statusCode \in {401, 403, 404, 410}
    \/ error.contains # {}

\* C20: a failure that is not classified as InvalidInput, AccessRestricted, NotFound,
\* LinkExpired or RateLimited is answered 500, and the status of every response is one
\* of 200, 400, 403, 404, 410, 429, 500.  Checked under SpecPost.
C20_UnclassifiedAnswers500 ==
    \A r \in Requests :
        reqs[r].status # 0 =>
            /\ reqs[r].status \in {200, 400, 403, 404, 410, 429, 500}
            /\ (reqs[r].failed /\ reqs[r].status # 200 /\ ~Classified(reqs[r].error)) =>
                   reqs[r].status = 500

\* C21: a request that passed the rate-limit gate with a missing or invalid url, or with
\* a url that yields no video identifier, is answered 400 and getInfo is never invoked
\* for it.  Checked under SpecPost.
C21_InvalidInputAnswers400 ==
    /\ [](\A r \in Requests :
            (reqs[r].status = 400 /\ ~reqs[r].hasInfo) =>
                (reqs[r].pc = "done" /\ reqs[r].infoCalls = 0 /\ reqs[r].gate = "allowed"))
    /\ [][\A r \in Requests, body \in PostBodies :
            (ParseBody(r, body) /\ body.url # "ok") =>
                /\ reqs'[r].pc = "done" /\ reqs'[r].status = 400
                /\ reqs'[r].infoCalls = 0 /\ ~reqs'[r].hasInfo]_vars

\* C21 witness: an admitted request whose url passed isValidYouTubeUrl but gave no video
\* identifier (or did not pass) was answered 400 without a metadata fetch.
C21_Witness ==
    /\ reqs["r1"].gate = "allowed" /\ reqs["r1"].parsed /\ reqs["r1"].validated
    /\ reqs["r1"].status = 400 /\ reqs["r1"].infoCalls = 0 /\ reqs["r1"].pc = "done"

(***************************************************************************)
(* Claims about the filename, checked under SpecName.                      *)
(***************************************************************************)
Named == filename # << >>

\* the filename without its extension
Stem == SubSeq(filename, 1, Len(filename) - 1)

\* a is b with some of its elements left out, the others in their order
RECURSIVE IsSubsequence(_, _)
IsSubsequence(a, b) ==
    IF a = << >> THEN TRUE
    ELSE IF b = << >> THEN FALSE
    ELSE IF Head(a) = Head(b) THEN IsSubsequence(Tail(a), Tail(b))
    ELSE IsSubsequence(a, Tail(b))

\* the elements of t that are in the set `class`, in their order
Only(t, class) ==
    LET in(c) == c \in class IN SelectSeq(t, in)

C26_ChainOfThreeEachOnce ==
    /\ [](\A r \in Requests :
            /\ reqs[r].streams <= 1 /\ reqs[r].fetches <= 2
            /\ reqs[r].streams + reqs[r].fetches <= 3
            /\ reqs[r].fetches >= 1 => reqs[r].streams = 1
            /\ reqs[r].pc = "collect" => reqs[r].fetches = 0
            /\ reqs[r].pc = "direct" => reqs[r].fetches = 1
            /\ reqs[r].pc = "alternative" => reqs[r].fetches = 2)
    /\ [][\A r \in Requests :
            reqs'[r].fetches > reqs[r].fetches =>
                \/ (\E error \in StreamErrors : CollectFails(r, error))
                      /\ reqs'[r].pc = "direct"
                \/ DirectFails(r) /\ reqs'[r].pc = "alternative"]_vars

\* C26 witness: the primary stream, the direct fetch and the alternative fetch were each
\* tried and failed, and the request ended.
C26_Witness ==
    /\ reqs["r1"].pc = "done" /\ reqs["r1"].failed
    /\ reqs["r1"].streams = 1 /\ reqs["r1"].fetches = 2 /\ reqs["r1"].chunks >= 1

\* C27: the alternative of the chain is a combined stream other than the one selected
\* first and has the greatest height among the remaining combined streams, whichever
\* tier selected the first one.
C27_AlternativeIsNextBest ==
    [][\A r \in Requests :
          (DirectFails(r) /\ reqs'[r].pc = "alternative") =>
              /\ reqs'[r].selected \in OtherCombined(r)
              /\ \A i \in OtherCombined(r) :
                    reqs[r].info[i].height <= reqs[r].info[reqs'[r].selected].height]_vars

\* C28: a timeout of the collection, and any failure of the primary stream that is not
\* 410-class, is followed by no direct fetch and no alternative fetch and is answered
\* as a generic failure, 500.  An answer of 403 or 404 for an error of that class is let
\* pass.
C28_NoFallbackForOtherFailures ==
    [][\A r \in Requests :
          (\/ \E error \in StreamErrors : ~is410(error) /\ CollectFails(r, error)
           \/ CollectTimesOut(r)) =>
              /\ reqs'[r].pc = "done" /\ reqs'[r].failed
              /\ reqs'[r].fetches = 0
              /\ \/ reqs'[r].status = 500
                 \/ reqs'[r].status \in {403, 404} /\ Classified(reqs'[r].error)]_vars

\* C29: the source stream that is created and piped to the response has the format the
\* selection picked (or, in the 410 fallback chain, the alternative that replaced it),
\* for combined and for video-only selections alike.  Checked under SpecPost.
C29_RelayedStreamIsSelected ==
    \A r \in Requests :
        reqs[r].source # "none" =>
            /\ reqs[r].selected # 0
            /\ reqs[r].source \in {"selected", "direct", "alternative"}

\* C30: no error is swallowed: every failure raised while a request is handled gives a
\* JSON error answer, and none is reported under a 200 response.  Stated for its last
\* clause: a request in which an error was raised is not answered 200.  Checked under
\* SpecPost.
C30_NoFailureUnder200 ==
    \A r \in Requests :
        reqs[r].failed => reqs[r].status \notin {0, 200}

(***************************************************************************)
(* Claims about the catches, checked under SpecCatch.                      *)
(***************************************************************************)
\* C31: in the outermost catch the error's status code decides the status of the
\* answer: an error carrying status code 403 is answered 403 and one carrying status
\* code 404 is answered 404, whatever text its message contains.
C31_StatusCodeDecides ==
    \A r \in Requests :
        (reqs[r].caught = "outer" /\ reqs[r].error.statusCode \in {403, 404}) =>
            reqs[r].status = reqs[r].error.statusCode

(***************************************************************************)
(* Claims about the gate and what follows it, checked under SpecGate.      *)
(***************************************************************************)
\* C34: every POST request calls rateLimit exactly once, as its first step, and an
\* admitted request keeps its slot whatever happens next: a request answered 400 or
\* failing later is not refunded, so a request that follows at least `limit` requests
\* of its client in the window (and at least one) is answered 429.
C34_OneCallNoRefund ==
    /\ [](/\ \A r \in Requests :
               /\ reqs[r].pc # "idle" => reqs[r].gate # "none"
               /\ (reqs[r].gate # "none" /\ reqs[r].nth >= 2
                      /\ reqs[r].nth > MAX_REQUESTS_PER_WINDOW) => reqs[r].status = 429
          /\ \A key \in DOMAIN win :
               ~WindowOver(key) =>
                   (key \in DOMAIN store /\ store[key].count = win[key].accepted))
    /\ [][\A r \in Requests :
            reqs'[r] # reqs[r] =>
                IF reqs[r].pc = "idle"
                THEN /\ reqs'[r].gate # "none"
                     /\ win' = WinAfter(reqs'[r].ip, reqs'[r].gate = "allowed")
                ELSE store' = store /\ win' = win]_vars

\* C34 witness: with limit 2, the second admitted request of a window failed after the
\* gate, and the third request of that window is answered 429.
C34_Witness ==
    /\ MAX_REQUESTS_PER_WINDOW = 2
    /\ \E r, q \in Requests :
          /\ reqs[r].gate = "rejected" /\ reqs[r].status = 429 /\ reqs[r].nth = 3
          /\ reqs[q].gate = "allowed" /\ reqs[q].nth = 2 /\ reqs[q].failed
          /\ reqs[q].winStart = reqs[r].winStart

(***************************************************************************)
(* Claims about the relay, checked under SpecRelay.                        *)
(***************************************************************************)
\* C37: in the streaming relay, for every sequence of source events (data, end, error),
\* clock advances and cancellation of the output: the chunks enqueued are a prefix of the
\* chunks the source emitted, in the same order; once the relay has recorded an error
\* or a timeout (hasError) no further chunk is enqueued and the output is never closed
\* normally; and the output is closed normally only by the source's end event with no
\* error before it.
C37_RelayPrefixAndClose ==
    /\ [](\A r \in Requests :
            /\ Len(reqs[r].relayed) <= reqs[r].emitted
            /\ \A i \in DOMAIN reqs[r].relayed : reqs[r].relayed[i] = i
            /\ reqs[r].hasError => reqs[r].sink # "closed")
    /\ [][\A r \in Requests :
            reqs'[r].pc # "idle" =>
                /\ reqs[r].hasError =>
                       reqs'[r].relayed = reqs[r].relayed /\ reqs'[r].hasError
                /\ (reqs'[r].sink = "closed" /\ reqs[r].sink # "closed") =>
                       RelayEnds(r) /\ ~reqs[r].hasError]_vars

\* C37 witness: the source emitted more chunks than were enqueued: the chunks of the
\* queue are the first it emitted, an error or a timeout was recorded, and a chunk
\* emitted after it was dropped.
C37_Witness ==
    \E r \in Requests :
        /\ reqs[r].hasError /\ reqs[r].sink # "closed"
        /\ Len(reqs[r].relayed) >= 1
        /\ reqs[r].emitted > Len(reqs[r].relayed) + 1
====
